---- MODULE Spec2Model ----
(***************************************************************************)
(* Model of go-tenkft: the recursive retry executor FetchOpts.Fetch        *)
(* (utils package) and the paginating GetAll* operations of Client.        *)
(*                                                                         *)
(* Spec     one call of FetchOpts.Fetch against a server that answers      *)
(*          every send with a status or a transport failure.               *)
(* SpecAll  one call of a GetAll* operation; every page fetch runs the     *)
(*          same Fetch machine underneath.                                 *)
(* SpecPaging  the methods of Paging.                                     *)
(* SpecOp   one single-call operation of Client, or one batch tag creation.*)
(* SpecCtor NewClient and NewFetchOpts.                                    *)
(* SpecReq  one call of Fetch, with the request it builds.                 *)
(* SpecReuse  GetAll* called again on the same options map.                *)
(***************************************************************************)
EXTENDS Integers, Sequences, FiniteSets, TLC

\* ------------------------------------------------------------------ bounds
MaxRetriesBound == 2
ClientRetries == 1
MaxPages == 3
MaxTags == 3
MaxCalls == 2

\* items the server puts on one page
PerPage == 2

VARIABLES
    opts,      \* the FetchOpts the call was started with
    stack,     \* activation records of the recursive Fetch, innermost last
    resps,     \* one record per request sent by c.Do, in send order
    waits,     \* the time.Sleep calls taken so far
    fstate,    \* "idle" | "running" | "returned" | "panicked"
    fresp,     \* resp returned by the outermost Fetch (0 = nil pointer)
    ferr,      \* err returned by the outermost Fetch
    kind,      \* which GetAll* operation runs ("none" under Spec)
    client,    \* the Client: token, env, MaxRetries
    server,    \* number of pages the server holds
    gpc,       \* position inside GetAll*
    inLoop,    \* TRUE when the running GetX call was made from the for loop
    coll,      \* the accumulated collection (projects, users, ...)
    gerr,      \* the named result err of GetAll*
    gresp,     \* the named result resp of GetAll*
    optsPage,  \* opts["page"] of the caller's map (0 = key absent)
    optsPer,   \* opts["per_page"] of the caller's map (0 = key absent)
    pageLog,   \* one record per GetX call made by GetAll*
    fac        \* the facade operation under way and what it works on

fvars == <<opts, stack, resps, waits, fstate, fresp, ferr>>
gvars == <<kind, client, server, gpc, inLoop, coll, gerr, gresp, optsPage, optsPer, pageLog, fac>>
vars == <<opts, stack, resps, waits, fstate, fresp, ferr,
          kind, client, server, gpc, inLoop, coll, gerr, gresp, optsPage, optsPer, pageLog, fac>>

\* ------------------------------------------------------------ error values
NoErr == [kind |-> "nil", code |-> 0, body |-> 0]
TransportErr == [kind |-> "transport", code |-> 0, body |-> 0]
RequestErr == [kind |-> "request", code |-> 0, body |-> 0]
\* fmt.Errorf("Non OK status Code: %v, body: %v", ...)
StatusErrBody(code, text) == [kind |-> "status", code |-> code, body |-> text]
\* fmt.Errorf("Non OK status code %v and could not parse response text", ...)
StatusErrNoBody(code) == [kind |-> "status", code |-> code, body |-> 0]

\* ------------------------------------------------------------ the server
\* statuses a received response may carry
Statuses == {200, 429, 500}
\* status of the response c.Do hands back together with a redirect-policy error
RedirectStatus == 302

Front(s) == SubSeq(s, 1, Len(s) - 1)
Last(s) == s[Len(s)]

\* resp.StatusCode < 200 || resp.StatusCode > 299
IsFailureOffByOne(code) == code <= 200 \/ code > 299
IsFailure(code) == code < 200 \/ code > 299

\* resp.StatusCode == 429 && opts.MaxRetries > 0
Is429RetryAlways(code, retries) == code = 429
Is429Retry(code, retries) == code = 429 /\ retries > 0

\* opts.MaxRetries > 0 at line 43
HasBudgetOffByOne(retries) == retries > 1
HasBudgetInclusive(retries) == retries >= 0
HasBudget(retries) == retries > 0

NewFrame(retries) == [MaxRetries |-> retries, pc |-> "line31", resp |-> 0, err |-> NoErr]

\* resp, err = opts.Fetch() at line 39: both results are stored, control goes on to line 42
AfterCallKeepResp(frame, r, e) == [frame EXCEPT !.err = e, !.pc = "line42"]
AfterCall(frame, r, e) == [frame EXCEPT !.resp = r, !.err = e, !.pc = "line42"]

\* A frame returns (r, e) to the frames below it.  A caller suspended at line 39
\* resumes at line 42; a caller suspended at line 46 falls through to the bare
\* return of line 62 and hands the same pair further down.
RECURSIVE Unwind(_, _, _)
Unwind(stk, r, e) ==
    IF stk = <<>>
    THEN [stack |-> <<>>, done |-> TRUE, resp |-> r, err |-> e]
    ELSE IF Last(stk).pc = "line39"
         THEN [stack |-> Append(Front(stk), AfterCall(Last(stk), r, e)),
               done |-> FALSE, resp |-> r, err |-> e]
         ELSE Unwind(Front(stk), r, e)

\* the effect of a return statement of the innermost frame
ReturnFrom(r, e) ==
    LET u == Unwind(Front(stack), r, e)
    IN  /\ stack' = u.stack
        /\ IF u.done
           THEN fstate' = "returned" /\ fresp' = u.resp /\ ferr' = u.err
           ELSE UNCHANGED <<fstate, fresp, ferr>>

Top == Last(stack)
Running == fstate = "running" /\ stack # <<>>

\* control of the innermost frame stands at the test of line 42
AtLine42 ==
    /\ Running
    /\ \/ Top.pc = "line42"
       \/ /\ Top.pc = "line36"
          /\ ~Is429Retry(resps[Top.resp].StatusCode, Top.MaxRetries)

\* ---------------------------------------------------------- Fetch actions
\* line 21-24: http.NewRequest rejects the method or the URL
FetchBadRequest ==
    /\ Running
    /\ Top.pc = "line31"
    /\ ~opts.valid
    /\ resps' = Append(resps, [StatusCode |-> 0, sent |-> FALSE, nilResp |-> FALSE,
                               transportErr |-> FALSE, closed |-> FALSE, reads |-> 0, readOK |-> FALSE,
                               budget |-> Top.MaxRetries])
    /\ ReturnFrom(Len(resps) + 1, RequestErr)
    /\ UNCHANGED <<opts, waits>>

\* line 31: c.Do(req) delivers a response
FetchDo ==
    /\ Running
    /\ Top.pc = "line31"
    /\ opts.valid
    /\ \E code \in Statuses :
        /\ resps' = Append(resps, [StatusCode |-> code, sent |-> TRUE, nilResp |-> FALSE,
                                   transportErr |-> FALSE, closed |-> FALSE, reads |-> 0, readOK |-> FALSE,
                                   budget |-> Top.MaxRetries])
        /\ stack' = Append(Front(stack),
                           [Top EXCEPT !.resp = Len(resps) + 1, !.pc = "line36"])
    /\ UNCHANGED <<opts, waits, fstate, fresp, ferr>>

\* line 31-34: c.Do(req) fails; resp is nil, or (redirect policy) a response
\* whose body is already closed
FetchDoFail ==
    /\ Running
    /\ Top.pc = "line31"
    /\ opts.valid
    /\ \E isNil \in BOOLEAN :
        /\ resps' = Append(resps, [StatusCode |-> IF isNil THEN 0 ELSE RedirectStatus,
                                   sent |-> TRUE, nilResp |-> isNil,
                                   transportErr |-> TRUE, closed |-> TRUE, reads |-> 0, readOK |-> FALSE,
                                   budget |-> Top.MaxRetries])
        /\ ReturnFrom(IF isNil THEN 0 ELSE Len(resps) + 1, TransportErr)
    /\ UNCHANGED <<opts, waits>>

\* line 36-39: 429 with budget left
FetchRetry429 ==
    /\ Running
    /\ Top.pc = "line36"
    /\ Is429Retry(resps[Top.resp].StatusCode, Top.MaxRetries)
    /\ waits' = Append(waits, [secs |-> 10, after |-> Top.resp])
    /\ stack' = Append(Append(Front(stack),
                              [Top EXCEPT !.MaxRetries = @ - 1, !.pc = "line39"]),
                       NewFrame(Top.MaxRetries - 1))
    /\ UNCHANGED <<opts, resps, fstate, fresp, ferr>>

\* line 42: resp is nil after the recursive call of line 39 failed in c.Do
FetchNilDeref ==
    /\ AtLine42
    /\ Top.resp = 0
    /\ fstate' = "panicked"
    /\ UNCHANGED <<opts, stack, resps, waits, fresp, ferr>>

\* line 42-46: failure status with budget left
FetchRetryStatus ==
    /\ AtLine42
    /\ Top.resp # 0
    /\ IsFailure(resps[Top.resp].StatusCode)
    /\ HasBudget(Top.MaxRetries)
    /\ waits' = Append(waits, [secs |-> 2, after |-> Top.resp])
    /\ stack' = Append(Append(Front(stack),
                              [Top EXCEPT !.MaxRetries = @ - 1, !.pc = "line46"]),
                       NewFrame(Top.MaxRetries - 1))
    /\ UNCHANGED <<opts, resps, fstate, fresp, ferr>>

\* line 47-58: failure status, budget exhausted: read the body, build the error
FetchTerminal ==
    /\ AtLine42
    /\ Top.resp # 0
    /\ IsFailure(resps[Top.resp].StatusCode)
    /\ ~HasBudget(Top.MaxRetries)
    /\ \E ok \in BOOLEAN :
        \* ioutil.ReadAll fails on a closed body (and on a nil Body)
        /\ (resps[Top.resp].closed \/ ~resps[Top.resp].sent) => ~ok
        /\ IF ok
           THEN /\ resps' = [resps EXCEPT ![Top.resp].reads = @ + 1,
                                         ![Top.resp].readOK = TRUE,
                                         ![Top.resp].closed = TRUE]
                /\ ReturnFrom(Top.resp, StatusErrBody(resps[Top.resp].StatusCode, Top.resp))
           ELSE /\ resps' = [resps EXCEPT ![Top.resp].reads = @ + 1]
                /\ ReturnFrom(Top.resp, StatusErrNoBody(resps[Top.resp].StatusCode))
    /\ UNCHANGED <<opts, waits>>

\* line 62: the status at line 42 is in [200,299]
FetchReturn ==
    /\ AtLine42
    /\ Top.resp # 0
    /\ ~IsFailure(resps[Top.resp].StatusCode)
    /\ ReturnFrom(Top.resp, Top.err)
    /\ UNCHANGED <<opts, resps, waits>>

\* ------------------------------------------------------------ pagination
Kinds == {"projects", "users", "userAssignments", "leaveTypes", "roles", "billRates"}

\* opts["per_page"] = "201" / "250" / "50"
PerPageOf(k) ==
    IF k \in {"projects", "users"} THEN 201
    ELSE IF k = "userAssignments" THEN 250
    ELSE 50

\* a *Paging: nil, or the fields HasNext and GetNextPage look at
NilPaging == [nil |-> TRUE, Page |-> 0, Next |-> ""]
EmptyPaging == [nil |-> FALSE, Page |-> 0, Next |-> ""]

\* func (p *Paging) HasNext() bool
HasNextIgnoresNull(p) == p.Next # ""
HasNext(p) == p.Next # "null" /\ p.Next # ""

\* func (p *Paging) GetNextPage() int
GetNextPageSkips(p) == p.Page + 2
GetNextPageDoubles(p) == 2 * p.Page
GetNextPage(p) == p.Page + 1

\* the collection a GetX operation starts from: GetProjects and GetUsers build
\* &Projects{Paging: &Paging{}}, the other four build &Assignments{} etc.
FreshColl(k) ==
    [Data |-> <<>>,
     Paging |-> IF k \in {"projects", "users"} THEN EmptyPaging ELSE NilPaging]

ReadErr == [kind |-> "read", code |-> 0, body |-> 0]
DecodeErr == [kind |-> "decode", code |-> 0, body |-> 0]

\* the envelope the server holds for page p: PerPage items, and a next link on
\* every page but the last; a page beyond the last one is empty
ItemsOf(p) == IF p <= server THEN [n \in 1..PerPage |-> PerPage * (p - 1) + n] ELSE <<>>
ServerPaging(p) == [nil |-> FALSE, Page |-> p, Next |-> IF p < server THEN "next" ELSE ""]

\* the page a request asks for: opts["page"], the server's first page without it
RequestedPageSkipsOne == IF optsPage = 0 THEN 1 ELSE optsPage + 1
RequestedPage == IF optsPage = 0 THEN 1 ELSE optsPage

\* what the body of a 2xx answer may decode to
Variants == {"good", "nopaging", "nullpaging", "typeerr", "syntax", "readfail"}

\* GetX after fetcher.Fetch() returned (lines 184-200 of GetProjects and the
\* same lines of its siblings): the collection and the error it hands back
GetXResult(k, page, fetchErr, variant) ==
    IF fetchErr # NoErr THEN [coll |-> FreshColl(k), err |-> fetchErr]
    ELSE IF variant = "readfail" THEN [coll |-> FreshColl(k), err |-> ReadErr]
    ELSE IF variant = "syntax" THEN [coll |-> FreshColl(k), err |-> DecodeErr]
    ELSE IF variant = "typeerr"
         \* json.Unmarshal skips the offending field, fills in the rest and
         \* reports the type error
         THEN [coll |-> [Data |-> ItemsOf(page), Paging |-> ServerPaging(page)],
               err |-> DecodeErr]
    ELSE IF variant = "nopaging"
         \* no "paging" member: the Paging of the fresh collection stays
         THEN [coll |-> [Data |-> ItemsOf(page), Paging |-> FreshColl(k).Paging],
               err |-> NoErr]
    ELSE IF variant = "nullpaging"
         \* "paging": null sets the pointer to nil
         THEN [coll |-> [Data |-> ItemsOf(page), Paging |-> NilPaging], err |-> NoErr]
    ELSE [coll |-> [Data |-> ItemsOf(page), Paging |-> ServerPaging(page)],
          err |-> NoErr]

\* utils.NewFetchOpts(...) followed by fetcher.Fetch(): a new Fetch call
StartFetch ==
    /\ opts' = [opts EXCEPT !.MaxRetries = client.MaxRetries]
    /\ stack' = <<NewFrame(client.MaxRetries)>>
    /\ resps' = <<>>
    /\ waits' = <<>>
    /\ fstate' = "running"
    /\ fresp' = 0
    /\ ferr' = NoErr

\* GetAllX, up to the first call of GetX: opts["per_page"] is set
GetAllBegin ==
    /\ gpc = "start"
    /\ optsPer' = PerPageOf(kind)
    /\ gpc' = "fetching"
    /\ inLoop' = FALSE
    /\ pageLog' = Append(pageLog, [page |-> RequestedPage, loop |-> FALSE, done |-> FALSE,
                                   failed |-> FALSE, hasNext |-> FALSE, err |-> NoErr,
                                   variant |-> "none"])
    /\ StartFetch
    /\ UNCHANGED <<kind, client, server, coll, gerr, gresp, optsPage, fac>>

\* GetX returns to GetAllX.  After the first call an error returns at once;
\* inside the loop resp is replaced, the test is made on the outer err, and the
\* page is appended.
GetXReturn ==
    /\ gpc = "fetching"
    /\ fstate = "returned"
    /\ \E variant \in Variants :
        LET r == GetXResult(kind, Last(pageLog).page, ferr, variant)
            paging == r.coll.Paging
        IN  /\ ferr # NoErr => variant = "good"
            /\ pageLog' = [pageLog EXCEPT ![Len(pageLog)] =
                              [@ EXCEPT !.done = TRUE,
                                        !.failed = (r.err # NoErr),
                                        !.err = r.err,
                                        !.variant = IF ferr = NoErr THEN variant ELSE "none",
                                        !.hasNext = (~paging.nil /\ HasNext(paging))]]
            \* defer resp.Body.Close() after ioutil.ReadAll
            /\ resps' = IF ferr = NoErr
                        THEN [resps EXCEPT ![fresp].reads = @ + 1,
                                           ![fresp].readOK = (variant # "readfail"),
                                           ![fresp].closed = TRUE]
                        ELSE resps
            /\ gresp' = fresp
            /\ IF ~inLoop
               THEN /\ coll' = r.coll
                    /\ gerr' = r.err
                    /\ gpc' = IF r.err # NoErr THEN "done" ELSE "test"
               ELSE IF gerr # NoErr
                    THEN /\ gerr' = r.err
                         /\ gpc' = "done"
                         /\ coll' = coll
                    ELSE /\ coll' = [Data |-> coll.Data \o r.coll.Data, Paging |-> paging]
                         /\ gerr' = gerr
                         /\ gpc' = "test"
    /\ fstate' = "idle"
    /\ UNCHANGED <<opts, stack, waits, fresp, ferr, kind, client, server, inLoop, optsPage, optsPer, fac>>

\* the loop condition holds: opts["page"] is set and GetX is called again
LoopNext ==
    /\ gpc = "test"
    /\ ~coll.Paging.nil
    /\ HasNext(coll.Paging)
    /\ optsPage' = GetNextPage(coll.Paging)
    /\ gpc' = "fetching"
    /\ inLoop' = TRUE
    /\ pageLog' = Append(pageLog, [page |-> GetNextPage(coll.Paging), loop |-> TRUE,
                                   done |-> FALSE, failed |-> FALSE, hasNext |-> FALSE,
                                   err |-> NoErr, variant |-> "none"])
    /\ StartFetch
    /\ UNCHANGED <<kind, client, server, coll, gerr, gresp, optsPer, fac>>

\* the loop condition fails: return
LoopExit ==
    /\ gpc = "test"
    /\ ~coll.Paging.nil
    /\ ~HasNext(coll.Paging)
    /\ gpc' = "done"
    /\ UNCHANGED <<fvars, kind, client, server, inLoop, coll, gerr, gresp, optsPage, optsPer, pageLog, fac>>

\* the loop condition calls HasNext on a nil *Paging
LoopNilDeref ==
    /\ gpc = "test"
    /\ coll.Paging.nil
    /\ gpc' = "panicked"
    /\ UNCHANGED <<fvars, kind, client, server, inLoop, coll, gerr, gresp, optsPage, optsPer, pageLog, fac>>

InitAll ==
    /\ kind \in Kinds
    /\ client \in [MaxRetries : 0..ClientRetries]
    /\ server \in 1..MaxPages
    /\ opts \in [MaxRetries : {0}, valid : BOOLEAN]
    /\ stack = <<>>
    /\ resps = <<>>
    /\ waits = <<>>
    /\ fstate = "idle"
    /\ fresp = 0
    /\ ferr = NoErr
    /\ gpc = "start"
    /\ inLoop = FALSE
    /\ coll = FreshColl(kind)
    /\ gerr = NoErr
    /\ gresp = 0
    /\ optsPage = 0
    /\ optsPer = 0
    /\ pageLog = <<>>
    /\ fac = [op |-> "none"]

NextAll ==
    \/ GetAllBegin
    \/ GetXReturn
    \/ LoopNext
    \/ LoopExit
    \/ LoopNilDeref
    \/ FetchBadRequest /\ UNCHANGED gvars
    \/ FetchDo /\ UNCHANGED gvars
    \/ FetchDoFail /\ UNCHANGED gvars
    \/ FetchRetry429 /\ UNCHANGED gvars
    \/ FetchNilDeref /\ UNCHANGED gvars
    \/ FetchRetryStatus /\ UNCHANGED gvars
    \/ FetchTerminal /\ UNCHANGED gvars
    \/ FetchReturn /\ UNCHANGED gvars

SpecAll == InitAll /\ [][NextAll]_vars

\* ------------------------------------------- GetAll* on a map used again
\* the caller keeps one options map and one client and calls the same GetAll*
\* operation up to MaxCalls times
InitReuse ==
    /\ kind \in Kinds
    /\ client \in [token : {"tok"}, env : {"https://api.10000ft.com/api/v1"},
                   MaxRetries : 0..ClientRetries]
    /\ server \in 1..MaxPages
    /\ opts \in [MaxRetries : {0}, valid : BOOLEAN]
    /\ stack = <<>>
    /\ resps = <<>>
    /\ waits = <<>>
    /\ fstate = "idle"
    /\ fresp = 0
    /\ ferr = NoErr
    /\ gpc = "start"
    /\ inLoop = FALSE
    /\ coll = FreshColl(kind)
    /\ gerr = NoErr
    /\ gresp = 0
    /\ optsPage \in {0, 2}
    /\ optsPer \in {0, 10}
    /\ pageLog = <<>>
    /\ fac = [op |-> "getall", calls |-> 1, client0 |-> client, page0 |-> optsPage,
              prevLast |-> 0, prevCount |-> 0]

\* the operation has returned; the caller calls it again with the same map
GetAllAgain ==
    /\ fac.op = "getall"
    /\ gpc = "done"
    /\ fac.calls < MaxCalls
    /\ fac' = [fac EXCEPT !.calls = @ + 1,
                          !.page0 = optsPage,
                          !.prevLast = Last(pageLog).page,
                          !.prevCount = Len(pageLog)]
    /\ gpc' = "start"
    /\ inLoop' = FALSE
    /\ coll' = FreshColl(kind)
    /\ gerr' = NoErr
    /\ gresp' = 0
    /\ pageLog' = <<>>
    /\ stack' = <<>>
    /\ resps' = <<>>
    /\ waits' = <<>>
    /\ fstate' = "idle"
    /\ fresp' = 0
    /\ ferr' = NoErr
    /\ UNCHANGED <<opts, kind, client, server, optsPage, optsPer>>

NextReuse ==
    \/ GetAllBegin
    \/ GetXReturn
    \/ LoopNext
    \/ LoopExit
    \/ LoopNilDeref
    \/ GetAllAgain
    \/ FetchBadRequest /\ UNCHANGED gvars
    \/ FetchDo /\ UNCHANGED gvars
    \/ FetchDoFail /\ UNCHANGED gvars
    \/ FetchRetry429 /\ UNCHANGED gvars
    \/ FetchNilDeref /\ UNCHANGED gvars
    \/ FetchRetryStatus /\ UNCHANGED gvars
    \/ FetchTerminal /\ UNCHANGED gvars
    \/ FetchReturn /\ UNCHANGED gvars

SpecReuse == InitReuse /\ [][NextReuse]_vars

\* ------------------------------------------------- operations on their own
\* no Fetch call is under way
FetchIdle ==
    /\ stack = <<>>
    /\ resps = <<>>
    /\ waits = <<>>
    /\ fstate = "idle"
    /\ fresp = 0
    /\ ferr = NoErr

\* no GetAll* operation is under way
PagerIdle ==
    /\ kind = "none"
    /\ gpc = "idle"
    /\ inLoop = FALSE
    /\ coll = [Data |-> <<>>, Paging |-> <<>>]
    /\ gerr = NoErr
    /\ gresp = 0
    /\ optsPage = 0
    /\ optsPer = 0
    /\ pageLog = <<>>

pvars == <<kind, client, server, gpc, inLoop, coll, gerr, gresp, optsPage, optsPer, pageLog>>

\* --------------------------------------------------------- Paging methods
\* values of the "next" member of a paging object
NextValues == {"", "null", "next", "NULL", "nul", "null "}

InitPaging ==
    /\ fac \in [op : {"paging"},
                paging : [nil : {FALSE}, Page : 0..(2 * MaxPages), Next : NextValues],
                hasNext : {<<>>},
                nextPage : {<<>>}]
    /\ opts = [MaxRetries |-> 0, valid |-> TRUE]
    /\ client = [MaxRetries |-> 0]
    /\ server = 0
    /\ FetchIdle
    /\ PagerIdle

\* p.HasNext()
CallHasNext ==
    /\ fac.op = "paging"
    /\ fac.hasNext = <<>>
    /\ fac' = [fac EXCEPT !.hasNext = <<HasNext(fac.paging)>>]
    /\ UNCHANGED <<fvars, pvars>>

\* p.GetNextPage()
CallGetNextPage ==
    /\ fac.op = "paging"
    /\ fac.nextPage = <<>>
    /\ fac' = [fac EXCEPT !.nextPage = <<GetNextPage(fac.paging)>>]
    /\ UNCHANGED <<fvars, pvars>>

NextPaging ==
    \/ CallHasNext
    \/ CallGetNextPage

SpecPaging == InitPaging /\ [][NextPaging]_vars

\* ------------------------------------------------ single-call operations
CreateOps == {"CreateUser", "CreateProject", "CreateUserAssignment", "CreateProjectPhase"}
UpdateOps == {"UpdateUser", "UpdateProject"}
DeleteOps == {"DeleteUser", "DeleteProject"}
WriteOps == CreateOps \cup UpdateOps \cup DeleteOps

TypeOf(op) ==
    IF op \in {"CreateUser", "UpdateUser", "DeleteUser"} THEN "user"
    ELSE IF op \in {"CreateProject", "UpdateProject", "DeleteProject"} THEN "project"
    ELSE IF op = "CreateUserAssignment" THEN "assignment"
    ELSE "phase"

\* http.MethodPost / http.MethodPut
MethodOf(op) == IF op \in UpdateOps \cup DeleteOps THEN "PUT" ELSE "POST"

\* An entity is its writable base sub-object and the server-assigned ID.  Of
\* the base, Archived is the `archived,omitempty` member and Name the string
\* member of the type (first_name, name, phase_name, starts_at, value); only
\* baseProject marks its string members omitempty.
NameOmitEmpty(type) == type = "project"

WritableFields == {"archived", "name"}

\* json.Marshal(x.baseX): the members present in the body and their values
MarshalWhole(type, base) ==
    [f \in {"id"} \cup {g \in WritableFields :
                \/ g = "archived" /\ base.Archived
                \/ g = "name" /\ (~NameOmitEmpty(type) \/ base.Name # "")} |->
        IF f = "id" THEN 0 ELSE IF f = "archived" THEN base.Archived ELSE base.Name]
Marshal(type, base) ==
    [f \in {g \in WritableFields :
                \/ g = "archived" /\ base.Archived
                \/ g = "name" /\ (~NameOmitEmpty(type) \/ base.Name # "")} |->
        IF f = "archived" THEN base.Archived ELSE base.Name]

\* the body of a 2xx answer to a write: the members written and the id
Echo(body, id) ==
    [f \in DOMAIN body \cup {"id"} |-> IF f = "id" THEN id ELSE body[f]]

\* json.Unmarshal(b, x): every member present in the answer is stored
Unmarshal(answer, e) ==
    [base |-> [Archived |-> IF "archived" \in DOMAIN answer
                            THEN answer["archived"] ELSE e.base.Archived,
               Name |-> IF "name" \in DOMAIN answer
                        THEN answer["name"] ELSE e.base.Name],
     ID |-> IF "id" \in DOMAIN answer THEN answer["id"] ELSE e.ID]

\* the id the server answers with: the one of the URL, a new one on create
AnswerID(e, call) == IF e.ID = 0 THEN 100 + call ELSE e.ID

\* u.Archived = true
DeleteUserPrep(e) == [e EXCEPT !.base.Archived = TRUE]
\* p.baseProject = &baseProject{Archived: true}
DeleteProjectPrep(e) == [e EXCEPT !.base = [Archived |-> TRUE, Name |-> ""]]

\* requests that went on the wire during the Fetch call that just ended
SentCount == Cardinality({i \in 1..Len(resps) : resps[i].sent})

WriteVariants == {"good", "typeerr", "syntax", "readfail"}

\* x after CreateX / UpdateX handled the result of fetcher.Fetch(), and the
\* error the operation returns
WriteResultTranslates(e, body, call, fetchErr, variant) ==
    IF fetchErr # NoErr THEN [entity |-> e, err |-> [fetchErr EXCEPT !.kind = "facade"]]
    ELSE IF variant = "readfail" THEN [entity |-> e, err |-> ReadErr]
    ELSE IF variant = "syntax" THEN [entity |-> e, err |-> DecodeErr]
    ELSE IF variant = "typeerr"
         THEN [entity |-> [e EXCEPT !.ID = AnswerID(e, call)], err |-> DecodeErr]
    ELSE [entity |-> Unmarshal(Echo(body, AnswerID(e, call)), e), err |-> NoErr]
WriteResult(e, body, call, fetchErr, variant) ==
    IF fetchErr # NoErr THEN [entity |-> e, err |-> fetchErr]
    ELSE IF variant = "readfail" THEN [entity |-> e, err |-> ReadErr]
    ELSE IF variant = "syntax" THEN [entity |-> e, err |-> DecodeErr]
    ELSE IF variant = "typeerr"
         \* the member of the wrong type is skipped, the id is stored
         THEN [entity |-> [e EXCEPT !.ID = AnswerID(e, call)], err |-> DecodeErr]
    ELSE [entity |-> Unmarshal(Echo(body, AnswerID(e, call)), e), err |-> NoErr]

\* CreateX, UpdateX, DeleteX up to fetcher.Fetch()
WriteBegin ==
    /\ fac.op \in WriteOps
    /\ fac.pc = "start"
    /\ LET e == IF fac.op = "DeleteUser" THEN DeleteUserPrep(fac.entity)
                ELSE IF fac.op = "DeleteProject" THEN DeleteProjectPrep(fac.entity)
                ELSE fac.entity
       IN  fac' = [fac EXCEPT !.entity = e,
                              !.body = Marshal(TypeOf(fac.op), e.base),
                              !.method = MethodOf(fac.op),
                              !.calls = 1,
                              !.pc = "fetching"]
    /\ StartFetch
    /\ UNCHANGED pvars

\* CreateX, UpdateX, DeleteX after fetcher.Fetch() returned
WriteReturn ==
    /\ fac.op \in WriteOps
    /\ fac.pc = "fetching"
    /\ fstate = "returned"
    /\ \E variant \in WriteVariants :
        LET r == WriteResult(fac.entity, fac.body, fac.calls, ferr, variant)
        IN  /\ ferr # NoErr => variant = "good"
            /\ fac' = [fac EXCEPT !.entity = r.entity,
                                  !.err = r.err,
                                  !.resp = fresp,
                                  !.variant = IF ferr = NoErr THEN variant ELSE "none",
                                  !.sent = @ + SentCount,
                                  !.pc = "done"]
            /\ resps' = IF ferr = NoErr
                        THEN [resps EXCEPT ![fresp].reads = @ + 1,
                                           ![fresp].readOK = (variant # "readfail"),
                                           ![fresp].closed = TRUE]
                        ELSE resps
    /\ fstate' = "idle"
    /\ UNCHANGED <<opts, stack, waits, fresp, ferr, pvars>>

NewFac(op, e, tags) ==
    [op |-> op, pc |-> "start", entity |-> e, before |-> e, tags |-> tags, tagsBefore |-> tags,
     idx |-> 0, body |-> <<>>, method |-> "", calls |-> 0, sent |-> 0,
     err |-> NoErr, resp |-> 0, variant |-> "none", log |-> <<>>,
     coll |-> [Data |-> <<>>, Paging |-> NilPaging]]

\* entities as NewUser / NewProject and the caller set them up
Entities(ids) == [base : [Archived : BOOLEAN, Name : {"", "a"}], ID : ids]

InitWrite ==
    \/ /\ fac \in {NewFac(op, e, <<>>) : op \in CreateOps, e \in Entities({0})}
       /\ opts = [MaxRetries |-> 0, valid |-> TRUE]
    \/ /\ fac \in {NewFac(op, e, <<>>) : op \in UpdateOps \cup DeleteOps, e \in Entities({7})}
       /\ opts = [MaxRetries |-> 0, valid |-> TRUE]

\* ---------------------------------------------------------- Get operations
GetOps == {"GetProjects", "GetUsers", "GetUserAssignments", "GetProjectAssignments",
           "GetProjectPhases", "GetLeaveTypes", "GetRoles", "GetProjectBillRates",
           "GetProjectUsers"}

\* the collection type an operation decodes into
OpKind(op) ==
    IF op = "GetProjects" THEN "projects"
    ELSE IF op = "GetUsers" THEN "users"
    ELSE IF op = "GetUserAssignments" THEN "userAssignments"
    ELSE IF op = "GetProjectAssignments" THEN "projectAssignments"
    ELSE IF op = "GetProjectPhases" THEN "phases"
    ELSE IF op = "GetLeaveTypes" THEN "leaveTypes"
    ELSE IF op = "GetRoles" THEN "roles"
    ELSE IF op = "GetProjectBillRates" THEN "billRates"
    ELSE "projectUsers"

\* GetProjectAssignments declares its result as a value (assignments
\* Assignments) and hands that value, not its address, to json.Unmarshal,
\* which rejects a non-pointer target and stores nothing
GetResult(op, page, fetchErr, variant) ==
    IF op = "GetProjectAssignments" /\ fetchErr = NoErr /\ variant # "readfail"
    THEN [coll |-> [Data |-> <<>>, Paging |-> NilPaging], err |-> DecodeErr]
    ELSE IF op = "GetProjectAssignments"
    THEN [coll |-> [Data |-> <<>>, Paging |-> NilPaging],
          err |-> IF fetchErr # NoErr THEN fetchErr ELSE ReadErr]
    ELSE GetXResult(OpKind(op), page, fetchErr, variant)

\* GetX up to fetcher.Fetch()
GetBegin ==
    /\ fac.op \in GetOps
    /\ fac.pc = "start"
    /\ fac' = [fac EXCEPT !.method = "GET", !.calls = 1, !.pc = "fetching"]
    /\ StartFetch
    /\ UNCHANGED pvars

\* GetX after fetcher.Fetch() returned
GetReturn ==
    /\ fac.op \in GetOps
    /\ fac.pc = "fetching"
    /\ fstate = "returned"
    /\ \E variant \in Variants :
        LET r == GetResult(fac.op, RequestedPage, ferr, variant)
        IN  /\ ferr # NoErr => variant = "good"
            /\ fac' = [fac EXCEPT !.coll = r.coll,
                                  !.err = r.err,
                                  !.resp = fresp,
                                  !.variant = IF ferr = NoErr THEN variant ELSE "none",
                                  !.sent = @ + SentCount,
                                  !.pc = "done"]
            /\ resps' = IF ferr = NoErr
                        THEN [resps EXCEPT ![fresp].reads = @ + 1,
                                           ![fresp].readOK = (variant # "readfail"),
                                           ![fresp].closed = TRUE]
                        ELSE resps
    /\ fstate' = "idle"
    /\ UNCHANGED <<opts, stack, waits, fresp, ferr, pvars>>

InitGet ==
    /\ fac \in {NewFac(op, e, <<>>) : op \in GetOps, e \in Entities({7})}
    /\ fac.entity.base = [Archived |-> FALSE, Name |-> ""]
    /\ opts \in [MaxRetries : {0}, valid : BOOLEAN]

\* ----------------------------------------------------------------- GetUser
\* the Get operation that decodes into the entity the caller passed
EntityGetOps == {"GetUser"}

\* GetUser up to fetcher.Fetch(): a GET without body
GetUserBegin ==
    /\ fac.op \in EntityGetOps
    /\ fac.pc = "start"
    /\ fac' = [fac EXCEPT !.method = "GET", !.calls = 1, !.pc = "fetching"]
    /\ StartFetch
    /\ UNCHANGED pvars

\* GetUser after fetcher.Fetch() returned: the answer, the user as the server
\* holds it, is decoded into u
GetUserReturn ==
    /\ fac.op \in EntityGetOps
    /\ fac.pc = "fetching"
    /\ fstate = "returned"
    /\ \E variant \in WriteVariants :
        LET r == WriteResult(fac.entity, Marshal("user", fac.entity.base), fac.calls,
                             ferr, variant)
        IN  /\ ferr # NoErr => variant = "good"
            /\ fac' = [fac EXCEPT !.entity = r.entity,
                                  !.err = r.err,
                                  !.resp = fresp,
                                  !.variant = IF ferr = NoErr THEN variant ELSE "none",
                                  !.sent = @ + SentCount,
                                  !.pc = "done"]
            /\ resps' = IF ferr = NoErr
                        THEN [resps EXCEPT ![fresp].reads = @ + 1,
                                           ![fresp].readOK = (variant # "readfail"),
                                           ![fresp].closed = TRUE]
                        ELSE resps
    /\ fstate' = "idle"
    /\ UNCHANGED <<opts, stack, waits, fresp, ferr, pvars>>

InitGetUser ==
    /\ fac \in {NewFac(op, e, <<>>) : op \in EntityGetOps, e \in Entities({7})}
    /\ opts = [MaxRetries |-> 0, valid |-> TRUE]

\* ------------------------------------------------------ batch tag creation
TagOps == {"CreateUserTags", "CreateProjectTags"}

\* return resp, err inside the loop
TagLoopNeverStops(err) == FALSE
TagLoopStops(err) == err # NoErr

\* the next iteration of `for _, t := range x.Tags.Data` up to fetcher.Fetch()
TagCall(f, i) ==
    [f EXCEPT !.idx = i,
              !.body = Marshal("tag", f.tags[i].base),
              !.method = "POST",
              !.calls = @ + 1,
              !.pc = "fetching"]

\* CreateXTags up to the first fetcher.Fetch(); no tags, no call
TagsBegin ==
    /\ fac.op \in TagOps
    /\ fac.pc = "start"
    /\ IF fac.tags = <<>>
       THEN /\ fac' = [fac EXCEPT !.pc = "done"]
            /\ UNCHANGED fvars
       ELSE /\ fac' = TagCall(fac, 1)
            /\ StartFetch
    /\ UNCHANGED pvars

\* one iteration after fetcher.Fetch() returned: the answer is decoded into
\* the tag, an error returns at once, otherwise the loop goes on
TagsReturn ==
    /\ fac.op \in TagOps
    /\ fac.pc = "fetching"
    /\ fstate = "returned"
    /\ \E variant \in WriteVariants :
        LET r == WriteResult(fac.tags[fac.idx], fac.body, fac.calls, ferr, variant)
            f == [fac EXCEPT !.tags[fac.idx] = r.entity,
                             !.resp = fresp,
                             !.variant = IF ferr = NoErr THEN variant ELSE "none",
                             !.sent = @ + SentCount,
                             !.log = Append(@, [ferr |-> ferr, err |-> r.err])]
        IN  /\ ferr # NoErr => variant = "good"
            /\ IF ~TagLoopStops(r.err) /\ fac.idx < Len(fac.tags)
               THEN /\ fac' = TagCall(f, fac.idx + 1)
                    /\ StartFetch
               ELSE /\ fac' = [f EXCEPT !.err = r.err, !.pc = "done"]
                    /\ fstate' = "idle"
                    /\ resps' = IF ferr = NoErr
                                THEN [resps EXCEPT ![fresp].reads = @ + 1,
                                                   ![fresp].readOK = (variant # "readfail"),
                                                   ![fresp].closed = TRUE]
                                ELSE resps
                    /\ UNCHANGED <<opts, stack, waits, fresp, ferr>>
    /\ UNCHANGED pvars

\* x.Tags.Data: new tags, not yet known to the server
TagLists ==
    {[i \in 1..n |-> [base |-> [Archived |-> FALSE, Name |-> "t"], ID |-> 0]] : n \in 0..MaxTags}

InitTags ==
    /\ fac \in {NewFac(op, [base |-> [Archived |-> FALSE, Name |-> "a"], ID |-> 7], tags) :
                    op \in TagOps, tags \in TagLists}
    /\ opts = [MaxRetries |-> 0, valid |-> TRUE]

InitOp ==
    /\ (InitWrite \/ InitGet \/ InitGetUser \/ InitTags)
    /\ client \in [MaxRetries : 0..ClientRetries]
    /\ server = MaxPages
    /\ FetchIdle
    /\ PagerIdle

NextOp ==
    \/ WriteBegin
    \/ WriteReturn
    \/ GetBegin
    \/ GetReturn
    \/ GetUserBegin
    \/ GetUserReturn
    \/ TagsBegin
    \/ TagsReturn
    \/ FetchBadRequest /\ UNCHANGED gvars
    \/ FetchDo /\ UNCHANGED gvars
    \/ FetchDoFail /\ UNCHANGED gvars
    \/ FetchRetry429 /\ UNCHANGED gvars
    \/ FetchNilDeref /\ UNCHANGED gvars
    \/ FetchRetryStatus /\ UNCHANGED gvars
    \/ FetchTerminal /\ UNCHANGED gvars
    \/ FetchReturn /\ UNCHANGED gvars

SpecOp == InitOp /\ [][NextOp]_vars

\* ------------------------------------------------------------ constructors
Production == "https://api.10000ft.com/api/v1"
Staging == "https://vnext.10000ft.com/api/v1"

ConfigErr == [kind |-> "config", code |-> 0, body |-> 0]

\* func NewClient(token, env string) (*Client, error)
NewClientAnyURL(token, env) ==
    IF env = ""
    THEN [client |-> [token |-> "", env |-> "", MaxRetries |-> 0], err |-> ConfigErr]
    ELSE [client |-> [token |-> token, env |-> env, MaxRetries |-> 0], err |-> NoErr]
NewClient(token, env) ==
    IF env # Production /\ env # Staging
    THEN [client |-> [token |-> "", env |-> "", MaxRetries |-> 0], err |-> ConfigErr]
    ELSE [client |-> [token |-> token, env |-> env, MaxRetries |-> 0], err |-> NoErr]

ZeroFetchOpts == [URL |-> "", Method |-> "", Body |-> "", MaxRetries |-> 0]

\* func NewFetchOpts(url, method, body string, headers map[string]string, maxRetries int)
NewFetchOpts(url, method, body, maxRetries) ==
    IF url = ""
    THEN [opts |-> ZeroFetchOpts, err |-> ConfigErr]
    ELSE [opts |-> [URL |-> url,
                    Method |-> IF method = "" THEN "GET" ELSE method,
                    Body |-> body,
                    MaxRetries |-> maxRetries],
          err |-> NoErr]

Envs == {Production, Staging, "", "staging", "https://api.10000ft.com"}

InitCtor ==
    /\ fac \in [op : {"ctor"}, pc : {"start"},
                token : {"tok"}, env : Envs,
                url : {"", "/projects?"}, method : {"", "PUT"}, retries : 0..ClientRetries,
                client : {[token |-> "", env |-> "", MaxRetries |-> 0]}, clientErr : {NoErr},
                fetcher : {ZeroFetchOpts}, fetcherErr : {NoErr}]
    /\ opts = [MaxRetries |-> 0, valid |-> TRUE]
    /\ client = [MaxRetries |-> 0]
    /\ server = 0
    /\ FetchIdle
    /\ PagerIdle

\* c, err := NewClient(token, env); a caller handed an error stops there
CallNewClient ==
    /\ fac.op = "ctor"
    /\ fac.pc = "start"
    /\ LET r == NewClient(fac.token, fac.env)
       IN  fac' = [fac EXCEPT !.client = r.client, !.clientErr = r.err,
                              !.pc = IF r.err # NoErr THEN "done" ELSE "client"]
    /\ UNCHANGED <<fvars, pvars>>

\* fetcher, err := utils.NewFetchOpts(...); if err != nil { return };
\* resp, err = fetcher.Fetch()
CallNewFetchOpts ==
    /\ fac.op = "ctor"
    /\ fac.pc = "client"
    /\ LET r == NewFetchOpts(IF fac.url = "" THEN "" ELSE fac.client.env \o fac.url,
                             fac.method, "", fac.retries)
       IN  /\ fac' = [fac EXCEPT !.fetcher = r.opts, !.fetcherErr = r.err,
                                 !.pc = IF r.err # NoErr THEN "done" ELSE "fetching"]
           /\ IF r.err # NoErr
              THEN UNCHANGED fvars
              ELSE /\ opts' = [MaxRetries |-> r.opts.MaxRetries, valid |-> TRUE]
                   /\ stack' = <<NewFrame(r.opts.MaxRetries)>>
                   /\ fstate' = "running"
                   /\ UNCHANGED <<resps, waits, fresp, ferr>>
    /\ UNCHANGED pvars

NextCtor ==
    \/ CallNewClient
    \/ CallNewFetchOpts
    \/ FetchDo /\ UNCHANGED gvars
    \/ FetchDoFail /\ UNCHANGED gvars
    \/ FetchRetry429 /\ UNCHANGED gvars
    \/ FetchNilDeref /\ UNCHANGED gvars
    \/ FetchRetryStatus /\ UNCHANGED gvars
    \/ FetchTerminal /\ UNCHANGED gvars
    \/ FetchReturn /\ UNCHANGED gvars

SpecCtor == InitCtor /\ [][NextCtor]_vars

\* ------------------------------------------------- the request Fetch builds
\* textproto.CanonicalMIMEHeaderKey, applied by Header.Add to every key
CanonicalKey(k) == IF k = "content-type" THEN "Content-Type" ELSE k

\* the caller's value for canonical key k as Header.Add leaves it: nothing, or
\* one value
CallerValues(headers, k) ==
    IF \E c \in DOMAIN headers : CanonicalKey(c) = k
    THEN <<headers[CHOOSE c \in DOMAIN headers : CanonicalKey(c) = k]>>
    ELSE <<>>

\* lines 26-29: req.Header.Add("Content-Type", "application/json"), then
\* req.Header.Add(key, value) for every caller header.  Add appends to the
\* values the key already has.
BuildHeader(headers) ==
    [k \in {"Content-Type"} \cup {CanonicalKey(c) : c \in DOMAIN headers} |->
        (IF k = "Content-Type" THEN <<"application/json">> ELSE <<>>)
            \o CallerValues(headers, k)]

\* lines 19-29 in the frame whose copy of opts holds the given budget:
\* strings.NewReader(opts.Body) gives every frame a reader of its own, at
\* offset 0
BuildRequestSharedReader(o, retries) ==
    [Method |-> o.Method, URL |-> o.URL,
     Body |-> IF retries = opts.MaxRetries THEN o.Body ELSE "",
     Header |-> BuildHeader(o.Headers)]
BuildRequest(o, retries) ==
    [Method |-> o.Method, URL |-> o.URL, Body |-> o.Body, Header |-> BuildHeader(o.Headers)]

\* http.NewRequest: the method must be a token and the URL must parse
ValidRequest(o) == o.Method \in {"GET", "POST", "PUT"} /\ o.URL # "%zz"

\* the caller's Headers map
HeaderMaps ==
    {[k \in {} |-> ""],
     [k \in {"auth"} |-> "tok"],
     [k \in {"auth", "Content-Type"} |-> IF k = "auth" THEN "tok" ELSE "text/xml"],
     [k \in {"content-type"} |-> "text/xml"]}

\* the request that was sent for resps[i]
RequestOf(i) == BuildRequest(fac, resps[i].budget)

\* one call of Fetch on a FetchOpts value the caller filled in
InitReq ==
    /\ fac \in [op : {"fetch"}, URL : {"https://h/p", "%zz"}, Method : {"GET", "PUT", "B D"},
                Body : {"", "{}"}, Headers : HeaderMaps]
    /\ opts \in [MaxRetries : 0..MaxRetriesBound, valid : BOOLEAN]
    /\ opts.valid = ValidRequest(fac)
    /\ stack = <<NewFrame(opts.MaxRetries)>>
    /\ resps = <<>>
    /\ waits = <<>>
    /\ fstate = "running"
    /\ fresp = 0
    /\ ferr = NoErr
    /\ client = [MaxRetries |-> 0]
    /\ server = 0
    /\ PagerIdle

NextReq ==
    \/ FetchBadRequest /\ UNCHANGED gvars
    \/ FetchDo /\ UNCHANGED gvars
    \/ FetchDoFail /\ UNCHANGED gvars
    \/ FetchRetry429 /\ UNCHANGED gvars
    \/ FetchNilDeref /\ UNCHANGED gvars
    \/ FetchRetryStatus /\ UNCHANGED gvars
    \/ FetchTerminal /\ UNCHANGED gvars
    \/ FetchReturn /\ UNCHANGED gvars

SpecReq == InitReq /\ [][NextReq]_vars

\* ------------------------------------------------------ Fetch on its own
GIdle ==
    /\ kind = "none"
    /\ client = [MaxRetries |-> 0]
    /\ server = 0
    /\ gpc = "idle"
    /\ inLoop = FALSE
    /\ coll = [Data |-> <<>>, Paging |-> <<>>]
    /\ gerr = NoErr
    /\ gresp = 0
    /\ optsPage = 0
    /\ optsPer = 0
    /\ pageLog = <<>>
    /\ fac = [op |-> "none"]

Init ==
    /\ opts \in [MaxRetries : (0 - 1)..MaxRetriesBound, valid : BOOLEAN]
    /\ stack = <<NewFrame(opts.MaxRetries)>>
    /\ resps = <<>>
    /\ waits = <<>>
    /\ fstate = "running"
    /\ fresp = 0
    /\ ferr = NoErr
    /\ GIdle

Next ==
    \/ FetchBadRequest /\ UNCHANGED gvars
    \/ FetchDo /\ UNCHANGED gvars
    \/ FetchDoFail /\ UNCHANGED gvars
    \/ FetchRetry429 /\ UNCHANGED gvars
    \/ FetchNilDeref /\ UNCHANGED gvars
    \/ FetchRetryStatus /\ UNCHANGED gvars
    \/ FetchTerminal /\ UNCHANGED gvars
    \/ FetchReturn /\ UNCHANGED gvars

Spec == Init /\ [][Next]_vars

\* Fetch is synchronous code: a call that can take a step takes it
LiveSpec == Init /\ [][Next]_vars /\ WF_vars(Next)

\* ================================================================ claims
\* the requests that reached the wire (http.NewRequest succeeded)
NumRequests == Cardinality({i \in 1..Len(resps) : resps[i].sent})
\* resps[i] is a response received from the server with a non-2xx status
ReceivedFailure(i) ==
    /\ resps[i].sent
    /\ ~resps[i].transportErr
    /\ (resps[i].StatusCode < 200 \/ resps[i].StatusCode > 299)
\* resps[i] is a response received from the server with a 2xx status
ReceivedOK(i) ==
    /\ resps[i].sent
    /\ ~resps[i].transportErr
    /\ resps[i].StatusCode >= 200
    /\ resps[i].StatusCode <= 299

\* C1: with MaxRetries = N >= 0 one call of Fetch issues at most N+1 requests,
\* whatever mix of 429 and other failure statuses the server answers with.
C1_AtMostNPlusOneRequests ==
    opts.MaxRetries >= 0 => NumRequests <= opts.MaxRetries + 1

\* C6: when the last response received in a Fetch call is 2xx, Fetch returns
\* that response with a nil error (it never panics and never reports an
\* error), whatever the budget left and whatever failed before; a first
\* response that is 2xx is never followed by a second request.
C6_SuccessReturnsNilError ==
    /\ (resps # <<>> /\ ReceivedOK(Len(resps))) =>
          /\ fstate \in {"running", "returned"}
          /\ fstate = "returned" => (ferr = NoErr /\ fresp = Len(resps))
    /\ (resps # <<>> /\ ReceivedOK(1)) => Len(resps) = 1

\* C6 witness: a 2xx response returned after an earlier failure, with budget
\* still left at the attempt that succeeded
C6_Witness ==
    /\ fstate = "returned"
    /\ Len(resps) >= 2
    /\ ReceivedFailure(1)
    /\ ReceivedOK(Len(resps))
    /\ Last(resps).budget > 0
    /\ ferr = NoErr

\* C7: with MaxRetries = N, when the first f <= N attempts are answered with
\* non-2xx statuses (429 or not) and attempt f+1 with a 2xx status, Fetch
\* returns that 2xx response with a nil error after exactly f+1 requests: it
\* does not give up before attempt f+1 and sends nothing after it.
C7_RetryThenSuccess ==
    /\ \A j \in 1..Len(resps) :
          (/\ j - 1 <= opts.MaxRetries
           /\ ReceivedOK(j)
           /\ \A i \in 1..(j - 1) : ReceivedFailure(i)) =>
              /\ Len(resps) = j
              /\ fstate \in {"running", "returned"}
              /\ fstate = "returned" => (fresp = j /\ ferr = NoErr)
    /\ (/\ fstate # "running"
        /\ opts.valid
        /\ opts.MaxRetries >= 0
        /\ \A i \in 1..Len(resps) : ReceivedFailure(i)) =>
              Len(resps) >= opts.MaxRetries + 1

\* C7 witness: MaxRetries failures of both classes, then a success
C7_Witness ==
    /\ fstate = "returned"
    /\ opts.MaxRetries = 2
    /\ Len(resps) = 3
    /\ resps[1].StatusCode = 429
    /\ resps[2].StatusCode = 500
    /\ ReceivedOK(3)
    /\ fresp = 3
    /\ ferr = NoErr

\* C8: when Fetch returns a status error, the response returned with it is
\* the last response received during the call and the code in the error is
\* that response's status code.
C8_ErrorReflectsLastResponse ==
    (fstate = "returned" /\ ferr.kind = "status") =>
        /\ fresp = Len(resps)
        /\ ferr.code = resps[fresp].StatusCode

\* C8 witness: a status error returned after a retry that followed a 429
C8_Witness ==
    /\ fstate = "returned"
    /\ ferr.kind = "status"
    /\ Len(resps) >= 2
    /\ resps[1].StatusCode = 429
    /\ resps[fresp].StatusCode = 500

\* C9: a transport failure of the send on any attempt ends the call at once:
\* no further request is sent and the call returns the transport error.
C9_TransportFailureEndsCall ==
    \A i \in 1..Len(resps) :
        resps[i].transportErr =>
            /\ i = Len(resps)
            /\ fstate # "running" => (fstate = "returned" /\ ferr = TransportErr)

\* C10: when a call ends with a non-2xx response and no budget left, and the
\* body of that response was readable, the returned error carries the status
\* code and the body text and the failing response is returned with it, also
\* after retries.
C10_TerminalErrorCarriesBody ==
    (/\ fstate = "returned"
     /\ resps # <<>>
     /\ ReceivedFailure(Len(resps))
     /\ Last(resps).readOK) =>
        /\ fresp = Len(resps)
        /\ ferr = StatusErrBody(Last(resps).StatusCode, Len(resps))

\* the items of the pages asked for by the first n GetX calls, in call order
RECURSIVE ItemsOfLog(_)
ItemsOfLog(n) == IF n = 0 THEN <<>> ELSE ItemsOfLog(n - 1) \o ItemsOf(pageLog[n].page)

\* the i-th GetX call was made from the loop and returned an error
LoopFetchFailed(i) == pageLog[i].loop /\ pageLog[i].done /\ pageLog[i].failed

\* C2: when the fetch of a page inside the loop of a GetAll* operation
\* returns an error, the operation returns a non-nil error, namely the error
\* of the latest fetch in the loop.
C2_LoopErrorIsReturned ==
    (gpc = "done" /\ \E i \in 1..Len(pageLog) : LoopFetchFailed(i)) =>
        /\ gerr # NoErr
        /\ gerr = Last(pageLog).err

\* C3: a GetAll* operation makes no page fetch after a page whose HasNext()
\* is false, and none after a page fetch of the loop that returned an error.
C3_NoRequestAfterEndOrError ==
    \A i \in 1..(Len(pageLog) - 1) :
        /\ pageLog[i].hasNext
        /\ ~LoopFetchFailed(i)

\* C4: when a page fetch fails inside the loop, the collection returned holds
\* exactly the items of the pages fetched successfully before the failure, in
\* fetch order, and its Paging is that of the last page fetched successfully.
C4_PartialProgressPreserved ==
    \A i \in 2..Len(pageLog) :
        (/\ gpc = "done"
         /\ LoopFetchFailed(i)
         /\ \A j \in 1..(i - 1) : ~pageLog[j].failed) =>
            /\ coll.Data = ItemsOfLog(i - 1)
            /\ coll.Paging = ServerPaging(pageLog[i - 1].page)

\* every GetX call made so far that has returned, returned without error and
\* decoded a well-formed envelope with its paging object
AllFetchesSucceeded ==
    \A i \in 1..Len(pageLog) :
        pageLog[i].done => (~pageLog[i].failed /\ pageLog[i].variant = "good")

\* C5: against a server holding k >= 1 contiguously numbered pages with a
\* next link on pages 1..k-1 only, and with every page fetch succeeding, a
\* GetAll* operation asks for pages 1, 2, ..., k, each once and in this order,
\* and returns the k pages' items concatenated in page order with page k's
\* Paging.
C5_AllPagesConcatenated ==
    AllFetchesSucceeded =>
        /\ Len(pageLog) <= server
        /\ \A i \in 1..Len(pageLog) : pageLog[i].page = i
        /\ gpc # "panicked"
        /\ gpc = "done" =>
              /\ Len(pageLog) = server
              /\ coll.Data = ItemsOfLog(server)
              /\ Len(coll.Data) = PerPage * server
              /\ \A n \in 1..Len(coll.Data) : coll.Data[n] = n
              /\ coll.Paging = ServerPaging(server)
              /\ gerr = NoErr

\* C5 witness: three pages fetched and returned
C5_Witness ==
    /\ gpc = "done"
    /\ AllFetchesSucceeded
    /\ server = 3
    /\ Len(pageLog) = 3
    /\ Len(coll.Data) = 3 * PerPage
    /\ coll.Data[Len(coll.Data)] = 3 * PerPage
    /\ coll.Paging.Page = 3

\* C11: every response body is closed within its own attempt: when Fetch
\* re-issues a request, the body of the response that triggered the retry has
\* been closed.
C11_BodyClosedBeforeRetry ==
    \A w \in 1..Len(waits) : resps[waits[w].after].closed

\* C18: every retry taken in reaction to a 429 response is preceded by the
\* 10-second wait and every retry taken in reaction to another non-2xx status
\* by the 2-second wait.
C18_BackoffMatchesStatus ==
    \A w \in 1..Len(waits) :
        waits[w].secs = (IF resps[waits[w].after].StatusCode = 429 THEN 10 ELSE 2)

\* C19: after a page fetch fails inside the loop of a GetAll* operation, the
\* operation ends by returning to its caller; it does not abort abnormally.
C19_LoopFailureReturns ==
    (\E i \in 1..Len(pageLog) : LoopFetchFailed(i)) => gpc # "panicked"

\* the largest number of requests one call started with budget n can send
RECURSIVE MaxRequests(_)
MaxRequests(n) ==
    IF n <= 0 THEN 1
    ELSE 1 + MaxRequests(n - 1) + (IF n - 1 > 0 THEN MaxRequests(n - 2) ELSE 0)

\* C20: every Fetch call terminates: each re-issued request runs with a
\* budget strictly below the budget of the attempt that re-issued it, the
\* number of requests never exceeds a bound that depends on MaxRetries only,
\* and the call eventually stops running.
C20_FetchTerminates ==
    /\ [][Len(stack') > Len(stack) => Last(stack').MaxRetries < Last(stack).MaxRetries]_vars
    /\ [](NumRequests <= MaxRequests(opts.MaxRetries))
    /\ <>(fstate # "running")

\* C20 witness: a call that used up the whole bound before it returned
C20_Witness ==
    /\ fstate = "returned"
    /\ opts.MaxRetries = 2
    /\ NumRequests = MaxRequests(2)
    /\ Len(waits) = 3

\* C16: HasNext() is false exactly when Next is "" or the literal "null" and
\* true for every other value; GetNextPage() is Page + 1 whatever Next is.
C16_HasNextAndNextPage ==
    fac.op = "paging" =>
        /\ fac.hasNext # <<>> =>
              (fac.hasNext[1] = FALSE <=> fac.paging.Next \in {"", "null"})
        /\ fac.nextPage # <<>> => fac.nextPage[1] = fac.paging.Page + 1

\* C16 witness: both methods called on a paging whose Next is the literal
\* "null" and whose Page is not the first
C16_Witness ==
    /\ fac.op = "paging"
    /\ fac.paging.Next = "null"
    /\ fac.paging.Page = 2
    /\ fac.hasNext = <<FALSE>>
    /\ fac.nextPage = <<3>>

\* the value a request body gives a writable member; omitempty leaves out
\* exactly the empty values
BodyValue(body, f) ==
    IF f \in DOMAIN body THEN body[f] ELSE IF f = "archived" THEN FALSE ELSE ""

\* C13: DeleteUser and DeleteProject make exactly one update call (one PUT
\* when MaxRetries = 0) whose body has archived true and every other writable
\* member at the value the caller's entity held before the delete; the delete
\* changes or clears no writable member but archived.
C13_DeleteOnlySetsArchived ==
    (fac.op \in DeleteOps /\ fac.pc # "start") =>
        /\ fac.calls = 1
        /\ fac.method = "PUT"
        /\ (fac.pc = "done" /\ client.MaxRetries = 0) => fac.sent = 1
        /\ BodyValue(fac.body, "archived") = TRUE
        /\ BodyValue(fac.body, "name") = fac.before.base.Name
        /\ fac.pc = "fetching" => fac.entity.base.Name = fac.before.base.Name

\* C15: a create or update operation sends only members of the writable base
\* sub-object, at the values the entity holds, and after a successful call in
\* which the server echoes what was written the same entity has its
\* server-assigned id and every writable member at its value before the call.
C15_WriteRoundTrip ==
    (fac.op \in CreateOps \cup UpdateOps /\ fac.pc # "start") =>
        /\ DOMAIN fac.body \subseteq WritableFields
        /\ \A f \in WritableFields :
              BodyValue(fac.body, f) =
                  (IF f = "archived" THEN fac.before.base.Archived ELSE fac.before.base.Name)
        /\ (fac.pc = "done" /\ fac.err = NoErr /\ fac.variant = "good") =>
              /\ fac.entity.ID # 0
              /\ fac.entity.ID = AnswerID(fac.before, 1)
              /\ fac.entity.base = fac.before.base

\* C15 witness: a created project with a name came back with its id
C15_Witness ==
    /\ fac.op = "CreateProject"
    /\ fac.pc = "done"
    /\ fac.err = NoErr
    /\ fac.variant = "good"
    /\ fac.before.ID = 0
    /\ fac.before.base.Name = "a"
    /\ fac.entity.ID # 0
    /\ fac.entity.base.Name = "a"

\* C12: CreateUserTags and CreateProjectTags with MaxRetries = 0: when the
\* HTTP call for tag k is the first to fail, exactly k requests have been
\* sent and none follows, the operation returns the error of call k, tags
\* 1..k-1 carry their server-assigned id and tags k..n are unmodified.
C12_TagsStopAtFirstFailure ==
    (fac.op \in TagOps /\ client.MaxRetries = 0) =>
        \A k \in 1..Len(fac.log) :
            (/\ fac.log[k].ferr # NoErr
             /\ \A j \in 1..(k - 1) : fac.log[j].ferr = NoErr) =>
                /\ Len(fac.log) = k
                /\ fac.calls = k
                /\ fac.sent = k
                /\ fac.pc = "done"
                /\ fac.err = fac.log[k].ferr
                /\ \A j \in 1..(k - 1) : fac.tags[j].ID # 0
                /\ \A j \in k..Len(fac.tags) : fac.tags[j] = fac.tagsBefore[j]

\* C12 witness: three tags, the second call fails
C12_Witness ==
    /\ fac.op \in TagOps
    /\ client.MaxRetries = 0
    /\ Len(fac.tags) = 3
    /\ Len(fac.log) = 2
    /\ fac.log[1].ferr = NoErr
    /\ fac.log[2].ferr # NoErr
    /\ fac.pc = "done"
    /\ fac.sent = 2
    /\ fac.tags[1].ID # 0
    /\ fac.tags[3].ID = 0

\* C14: every Get operation, on a 2xx answer whose body is a well-formed
\* collection envelope, returns a nil error and a collection holding the
\* decoded items and paging.
C14_GetDecodesEnvelope ==
    (fac.op \in GetOps /\ fac.pc = "done" /\ fac.variant = "good") =>
        /\ fac.err = NoErr
        /\ fac.coll = [Data |-> ItemsOf(1), Paging |-> ServerPaging(1)]

\* C17: NewClient returns an error for every env but the Production and
\* Staging constants and, for these two, no error and a client bound to that
\* env; NewFetchOpts returns an error for an empty URL; in both error cases
\* no HTTP request is issued.
C17_ConstructorsRejectBadConfig ==
    fac.op = "ctor" =>
        /\ fac.pc # "start" =>
              /\ fac.clientErr # NoErr <=>
                    fac.env \notin {"https://api.10000ft.com/api/v1",
                                    "https://vnext.10000ft.com/api/v1"}
              /\ fac.clientErr = NoErr =>
                    (fac.client.env = fac.env /\ fac.client.token = fac.token)
        /\ (fac.pc \in {"fetching", "done"} /\ fac.clientErr = NoErr /\ fac.url = "") =>
              fac.fetcherErr # NoErr
        /\ (fac.clientErr # NoErr \/ fac.fetcherErr # NoErr) =>
              (resps = <<>> /\ stack = <<>> /\ fstate = "idle")

\* C17 witness: a client for Staging whose fetch options were refused for an
\* empty URL
C17_Witness ==
    /\ fac.op = "ctor"
    /\ fac.pc = "done"
    /\ fac.env = "https://vnext.10000ft.com/api/v1"
    /\ fac.clientErr = NoErr
    /\ fac.client.env = fac.env
    /\ fac.url = ""
    /\ fac.fetcherErr # NoErr
    /\ resps = <<>>

\* C21: a Fetch call with MaxRetries <= 0 whose request could be built sends
\* exactly one request and never sleeps; a 429 or any other non-2xx answer
\* ends the call at once with the status error of that status code.
C21_NoBudgetNoRetry ==
    (opts.MaxRetries <= 0 /\ opts.valid) =>
        /\ waits = <<>>
        /\ Len(resps) <= 1
        /\ Len(stack) <= 1
        /\ fstate # "running" =>
              /\ fstate = "returned"
              /\ NumRequests = 1
              /\ ReceivedFailure(1) =>
                    /\ ferr.kind = "status"
                    /\ ferr.code = resps[1].StatusCode
                    /\ fresp = 1

\* C21 witness: a 429 answered to a call without budget
C21_Witness ==
    /\ opts.MaxRetries = 0
    /\ opts.valid
    /\ fstate = "returned"
    /\ Len(resps) = 1
    /\ resps[1].StatusCode = 429
    /\ ferr.kind = "status"
    /\ ferr.code = 429
    /\ waits = <<>>

\* C22: every attempt of one Fetch call sends the method, the URL, the header
\* set and the whole body of the first attempt; only the budget differs.
C22_AttemptsSendSameRequest ==
    fac.op = "fetch" =>
        \A i \in 1..Len(resps) :
            resps[i].sent =>
                /\ RequestOf(i) = RequestOf(1)
                /\ RequestOf(i).Method = fac.Method
                /\ RequestOf(i).URL = fac.URL
                /\ RequestOf(i).Body = fac.Body
                /\ i > 1 => resps[i].budget < resps[1].budget

\* C22 witness: a PUT with a body and caller headers, sent a second time on a
\* smaller budget
C22_Witness ==
    /\ fac.op = "fetch"
    /\ fac.Method = "PUT"
    /\ fac.Body = "{}"
    /\ "auth" \in DOMAIN fac.Headers
    /\ Len(resps) = 2
    /\ resps[1].sent
    /\ resps[2].sent
    /\ resps[2].budget < resps[1].budget
    /\ RequestOf(2).Body = "{}"
    /\ fstate = "returned"

\* C25: when a caller header collides with the default Content-Type, the
\* value sent for Content-Type is the caller's value.
C25_CallerHeaderOverridesDefault ==
    fac.op = "fetch" =>
        \A i \in 1..Len(resps) :
            (/\ resps[i].sent
             /\ \E c \in DOMAIN fac.Headers : CanonicalKey(c) = "Content-Type") =>
                RequestOf(i).Header["Content-Type"] = CallerValues(fac.Headers, "Content-Type")

\* C23: in every GetAll* operation a page request made by the loop asks for
\* the Page of the page received last plus one; the next link only decides
\* whether the loop goes on.
C23_NextPageIsPagePlusOne ==
    [][(gpc = "test" /\ gpc' = "fetching") =>
            /\ optsPage' = coll.Paging.Page + 1
            /\ Last(pageLog').page = optsPage'
            /\ Last(pageLog').page = Last(pageLog).page + 1
            /\ coll.Paging.Next = "next"]_vars

\* C23 witness: three pages were asked for, the third one as page 3
C23_Witness ==
    /\ gpc = "done"
    /\ Len(pageLog) = 3
    /\ pageLog[2].page = 2
    /\ pageLog[3].page = 3
    /\ optsPage = 3

\* C24: when fetcher.Fetch() returns an error, a Get, Create or Update
\* operation returns that error and that response as they are, reads no body
\* and decodes nothing.
C24_ExecutorErrorPassedThrough ==
    [][(/\ fac.op \in GetOps \cup EntityGetOps \cup CreateOps \cup UpdateOps
        /\ fac.pc = "fetching"
        /\ fac'.pc = "done"
        /\ ferr # NoErr) =>
            /\ fac'.err = ferr
            /\ fac'.resp = fresp
            /\ resps' = resps
            /\ fac'.entity = fac.entity
            /\ fac.op \in GetOps => fac'.coll = FreshColl(OpKind(fac.op))]_vars

\* C24 witness: UpdateUser handed on the status error of its only request
C24_Witness ==
    /\ fac.op = "UpdateUser"
    /\ fac.pc = "done"
    /\ ferr.kind = "status"
    /\ fac.err = ferr
    /\ fac.resp = fresp
    /\ fac.entity = fac.before

\* C26: whenever a GetAll* operation evaluates HasNext(), the Paging of the
\* accumulated collection is non-nil, for all six resource types.
C26_PagingNonNilAtHasNext ==
    gpc = "test" => ~coll.Paging.nil

\* C27: within one Fetch call every response body is read at most once and
\* never after it was closed.
C27_BodyReadAtMostOnce ==
    [][\A i \in 1..Len(resps) :
            resps'[i].reads > resps[i].reads =>
                (resps[i].reads = 0 /\ ~resps[i].closed)]_vars

\* C28: when fetcher.Fetch() returns an error, CreateX, UpdateX, DeleteUser,
\* DeleteProject and GetUser leave the caller's entity as it was before the
\* call.
C28_EntityUntouchedOnError ==
    (/\ fac.op \in WriteOps \cup EntityGetOps
     /\ fac.pc = "done"
     /\ ferr # NoErr) =>
        fac.entity = fac.before

\* C29: a GetAll* operation writes into the caller's options map: once it has
\* started, per_page holds the operation's constant (201, 250 or 50) whatever
\* the caller had put there; on return page holds the last page requested when
\* more than one page was requested and is untouched otherwise; a second call
\* with the same map starts at that page; the client's token, env and
\* MaxRetries never change.
C29_OptionsMapWrittenClientUntouched ==
    fac.op = "getall" =>
        /\ gpc # "start" =>
              optsPer = (IF kind \in {"projects", "users"} THEN 201
                         ELSE IF kind = "userAssignments" THEN 250 ELSE 50)
        /\ (gpc = "done" /\ Len(pageLog) > 1) => optsPage = Last(pageLog).page
        /\ (gpc = "done" /\ Len(pageLog) = 1) => optsPage = fac.page0
        /\ (fac.calls > 1 /\ pageLog # <<>> /\ fac.prevCount > 1) =>
              pageLog[1].page = fac.prevLast
        /\ client = fac.client0

\* C29 witness: a first GetAllProjects over three pages, on a map in which the
\* caller had set per_page, left page = 3; the second call on the same map
\* asked for page 3 first
C29_Witness ==
    /\ fac.op = "getall"
    /\ kind = "projects"
    /\ fac.calls = 2
    /\ fac.prevCount = 3
    /\ fac.prevLast = 3
    /\ gpc = "done"
    /\ pageLog[1].page = 3
    /\ optsPer = 201
    /\ optsPage = 3

====
